---- MODULE Spec2Model ----
(***************************************************************************)
(* Client side of the SpeechCore real-time transcription pipeline          *)
(* (VoiceRecognitionPage in SpeechCore_Demo/app/App.tsx): audio capture,   *)
(* chunk flushing with the silence gate, the sequential WebSocket queue    *)
(* and the transcript aggregator.                                          *)
(*                                                                         *)
(* Samples are amplitudes in thousandths (4 stands for 0.004), so that the *)
(* comparison rms < SILENCE is the integer comparison                      *)
(* sum(v*v) < SILENCE*SILENCE*length.                                      *)
(***************************************************************************)
EXTENDS Integers, Sequences, FiniteSets, TLC

\* ---------------------------------------------------------------- bounds
MaxChunks == 2
MaxBuf == 1
\* longest buffer handed to the audio functions taken alone
MaxSamples == 3
\* frames in the capture buffer of a recording under way, for the flush
MaxFrames == 2
\* records in localStorage when the history page opens
MaxSaved == 5
\* polls of the remote service made by transcrire_gladia before it gives up
max_tentatives == 3

\* ------------------------------------------------------------- constants
TARGET_SR == 16000
SILENCE == 4

\* captured frames (4096 samples in the program, two here): a frame below the
\* silence threshold that holds one loud sample, and a frame at the threshold
Frames == {<<0, 4>>, <<4, 4>>}
\* sample rate of the capture device (actx.sampleRate)
NativeRates == {32000}
ChunkIds == 1..MaxChunks

\* position of the send of a chunk: not dispatched, blobToBase64 pending,
\* blobToBase64 rejected, socket constructed, payload sent, terminal message
\* received, onerror fired, ended (onclose ran or the constructor threw)
Stages == {"none", "encoding", "rejected", "connecting", "open", "terminal",
           "errored", "closed"}

\* the engines of the configuration panel and their speaker-count floor
Engines == {"whisper", "vosk", "gladia"}
NB_MIN == [e \in Engines |-> IF e = "gladia" THEN 0 ELSE 1]
\* the speaker buttons with a third one for automatic detection (0)
NbChoicesWithAuto == {0, 1, 2}
\* the speaker counts of the two buttons: setNbLocuteurs(1), setNbLocuteurs(2)
NbChoices == {1, 2}
\* sample rates of a capture device, for the audio functions taken alone
DeviceRates == {8000, 16000, 32000, 44100, 48000}
\* sample values of a captured buffer, in thousandths (1500 is clipped)
Samples == {-1500, -500, 0, 4, 1000}

Whitespace == {" ", "\n"}
Words == <<"a", "b", "c", "d">>
\* what the server may return as transcription_complete for chunk c: the field
\* missing, blank text, or the chunk's word with surrounding whitespace
RawTexts(c) == {[has |-> FALSE, s |-> <<>>],
               [has |-> TRUE, s |-> <<" ">>],
               [has |-> TRUE, s |-> <<"\n", Words[c], " ">>]}

VARIABLES
  isRecording, wsStatus, error, transcript, recordings, logs,
  pendingStarts, runningRef, pcmBufRef, nativeSRRef, procRef, leakedProcs,
  chunkTmrRef, leakedTmrs,
  wsQueueRef, wsBusyRef, conns, nextId, accepted,
  engine, nbLocuteurs, showConfig, recCfg, chunkCfg, payloads,
  fnPc, fnIn, fnRate, fnOut, fnWav,
  gPc, gRemote, tentatives, gOutcome,
  formTranscript, isExtracting, formError, formData, extractReq,
  currentPage, historyRecordings, selectedRecording

uiVars == <<isRecording, wsStatus, error, transcript, recordings>>
captureVars == <<pendingStarts, runningRef, pcmBufRef, nativeSRRef, procRef,
                 leakedProcs, chunkTmrRef, leakedTmrs>>
transportVars == <<wsQueueRef, wsBusyRef, conns, nextId>>
\* the selection of the configuration panel
cfgVars == <<engine, nbLocuteurs, showConfig>>
\* the selection at the start of the running recording and of each chunk
stampVars == <<recCfg, chunkCfg>>
\* one call of the audio functions: position, input, rate and results
fnVars == <<fnPc, fnIn, fnRate, fnOut, fnWav>>
\* one call of transcrire_gladia on the server: position, status replies of
\* the remote service, polls made and the outcome returned to the session
gladiaVars == <<gPc, gRemote, tentatives, gOutcome>>
\* what lies outside the voice recognition page
\* the forms page: selected transcript, extracting flag, error banner, form
\* values and the extractFormData call awaited by autoFillForm
formVars == <<formTranscript, isExtracting, formError, formData, extractReq>>
\* currentPage is the page that App shows
\* the history page: the list it shows and the record opened in its panel
historyVars == <<historyRecordings, selectedRecording>>
offPageVars == <<fnVars, gladiaVars, formVars, currentPage, historyVars>>
vars == <<uiVars, logs, captureVars, transportVars, accepted, cfgVars,
          stampVars, payloads, offPageVars>>

\* ---------------------------------------------------------- pure helpers
RECURSIVE SumSq(_)
SumSq(s) == IF s = <<>> THEN 0 ELSE Head(s) * Head(s) + SumSq(Tail(s))

RECURSIVE Merge(_)
Merge(frames) == IF frames = <<>> THEN <<>>
                 ELSE Head(frames) \o Merge(Tail(frames))

\* the silence test with the division by the length left out
IsSilentNoMean(merged) == SumSq(merged) < SILENCE * SILENCE

\* rms < SILENCE, with rms = sqrt(sum(v*v) / length)
IsSilent(merged) == SumSq(merged) < SILENCE * SILENCE * Len(merged)

\* Math.floor(x / y) in the place of Math.round
FloorDiv(x, y) == x \div y

\* Math.round(x / y) for non-negative integers
RoundDiv(x, y) == (2 * x + y) \div (2 * y)

At(f32, i) == IF i >= 1 /\ i <= Len(f32) THEN f32[i] ELSE 0

\* linear interpolation at position i * srcSR / TARGET_SR (0-based)
resample(f32, srcSR) ==
  IF srcSR = TARGET_SR THEN f32
  ELSE LET n == RoundDiv(Len(f32) * TARGET_SR, srcSR)
       IN [i \in 1..n |->
             LET num == (i - 1) * srcSR
                 idx == num \div TARGET_SR
                 rem == num % TARGET_SR
                 a == At(f32, idx + 1)
                 b == At(f32, idx + 2)
             IN a + (rem * (b - a)) \div TARGET_SR]

\* the sample of toWav: clamp to [-1, 1], then x * 0x8000 below zero and
\* x * 0x7fff otherwise, truncated by setInt16 (x in thousandths)
ToInt16(v) ==
  LET x == IF v > 1000 THEN 1000 ELSE IF v < -1000 THEN -1000 ELSE v
  IN IF x < 0 THEN -((-x * 32768) \div 1000) ELSE (x * 32767) \div 1000

\* an encoder writing 32-bit samples
toWavWide(f32, sr) ==
  [size |-> 44 + Len(f32) * 4,
   riffSize |-> 36 + Len(f32) * 4,
   format |-> 1, channels |-> 1,
   rate |-> sr, byteRate |-> sr * 4,
   blockAlign |-> 4, bits |-> 32,
   dataSize |-> Len(f32) * 4,
   data |-> [i \in 1..Len(f32) |-> ToInt16(f32[i])]]

\* toWav: the 44-byte header (RIFF size, PCM format 1, 1 channel, rate, byte
\* rate, block align 2, 16 bits, data size) and the 16-bit samples
toWav(f32, sr) ==
  [size |-> 44 + Len(f32) * 2,
   riffSize |-> 36 + Len(f32) * 2,
   format |-> 1, channels |-> 1,
   rate |-> sr, byteRate |-> sr * 2,
   blockAlign |-> 2, bits |-> 16,
   dataSize |-> Len(f32) * 2,
   data |-> [i \in 1..Len(f32) |-> ToInt16(f32[i])]]

RECURSIVE TrimLeft(_)
TrimLeft(s) == IF s # <<>> /\ Head(s) \in Whitespace THEN TrimLeft(Tail(s))
               ELSE s

RECURSIVE TrimRight(_)
TrimRight(s) == IF s # <<>> /\ s[Len(s)] \in Whitespace
                THEN TrimRight(SubSeq(s, 1, Len(s) - 1)) ELSE s

Trim(s) == TrimRight(TrimLeft(s))

\* (d.transcription_complete || "").trim()
ResultText(raw) == Trim(IF raw.has THEN raw.s ELSE <<>>)

\* the append with the separator put in front of every text
AppendTextAlwaysSep(prev, txt) == prev \o <<" ">> \o txt

\* prev + (prev && !prev.endsWith(" ") ? " " : "") + txt
AppendText(prev, txt) ==
  prev \o (IF prev # <<>> /\ prev[Len(prev)] # " " THEN <<" ">> ELSE <<>>)
       \o txt

\* the selection a chunk is meant to be sent with
Cfg(eng, nb) == [engine |-> eng, nb |-> nb]
NoCfg == [engine |-> "none", nb |-> 0]

\* a payload builder that sends the noise and environment fields for gladia too
buildPayloadNoiseForAll(eng, nb) ==
  IF eng = "vosk"
  THEN [audio |-> "b64", engine |-> eng, nb_locuteurs |-> nb,
        modele_vosk |-> "grand", methode_bruit |-> "false",
        type_environnement |-> "2"]
  ELSE IF eng = "whisper"
  THEN [audio |-> "b64", engine |-> eng, nb_locuteurs |-> nb,
        config_whisper |-> "cpu_rapide", methode_bruit |-> "false",
        type_environnement |-> "2"]
  ELSE [audio |-> "b64", engine |-> eng, nb_locuteurs |-> nb,
        methode_bruit |-> "false", type_environnement |-> "2"]

\* buildPayload(b64) with engineRef.current = eng and nbLocuteursRef.current =
\* nb; "b64" stands for the base64 text of the chunk
buildPayload(eng, nb) ==
  IF eng = "vosk"
  THEN [audio |-> "b64", engine |-> eng, nb_locuteurs |-> nb,
        modele_vosk |-> "grand", methode_bruit |-> "false",
        type_environnement |-> "2"]
  ELSE IF eng = "whisper"
  THEN [audio |-> "b64", engine |-> eng, nb_locuteurs |-> nb,
        config_whisper |-> "cpu_rapide", methode_bruit |-> "false",
        type_environnement |-> "2"]
  ELSE [audio |-> "b64", engine |-> eng, nb_locuteurs |-> nb]
NoPayload == [engine |-> "none"]

LogLine(tag, msg) == [tag |-> tag, msg |-> msg]

\* addLog appends one line to the log.  The variable logs holds the tail of
\* the log: the lines written by the latest handler that logged; prev is what
\* the running handler has written so far.
addLog(prev, tag, msg) == Append(prev, LogLine(tag, msg))

\* ------------------------------------------------------------------ Init
\* the page after its first render
InitPage ==
  /\ isRecording = FALSE
  /\ wsStatus = "disconnected"
  /\ error = "null"
  /\ transcript = <<>>
  /\ recordings = <<>>
  /\ logs = <<>>
  /\ pendingStarts = 0
  /\ runningRef = FALSE
  /\ pcmBufRef = <<>>
  /\ nativeSRRef = TARGET_SR
  /\ procRef = "null"
  /\ leakedProcs = 0
  /\ chunkTmrRef = "null"
  /\ leakedTmrs = 0
  /\ wsQueueRef = <<>>
  /\ wsBusyRef = FALSE
  /\ conns = [c \in ChunkIds |-> "none"]
  /\ nextId = 1
  /\ accepted = <<>>
  /\ engine = "whisper"
  /\ nbLocuteurs = 2
  /\ showConfig = FALSE
  /\ recCfg = NoCfg
  /\ chunkCfg = [c \in ChunkIds |-> NoCfg]
  /\ payloads = [c \in ChunkIds |-> NoPayload]

\* no cloud transcription is running
NoGladia ==
  /\ gPc = "idle"
  /\ gRemote = <<>>
  /\ tentatives = 0
  /\ gOutcome = "none"

\* the history page is not shown
NoHistory ==
  /\ historyRecordings = <<>>
  /\ selectedRecording = 0

\* the forms page after its first render
InitForms ==
  /\ formTranscript = <<>>
  /\ isExtracting = FALSE
  /\ formError = "null"
  /\ formData = <<>>
  /\ extractReq = "none"

Init ==
  /\ InitPage
  /\ fnPc = "idle"
  /\ fnIn = <<>>
  /\ fnRate = TARGET_SR
  /\ fnOut = <<>>
  /\ fnWav = <<>>
  /\ NoGladia
  /\ InitForms
  /\ currentPage = "voice"
  /\ NoHistory

\* the buffers of at most n samples
BoundedSeq(S, n) == UNION {[1..k -> S] : k \in 0..n}

\* one pass of a merged buffer through resample and toWav, as in flushChunk
InitAudio ==
  /\ InitPage
  /\ fnPc = "in"
  /\ fnIn \in BoundedSeq(Samples, MaxSamples)
  /\ fnRate \in DeviceRates
  /\ fnOut = <<>>
  /\ fnWav = <<>>
  /\ NoGladia
  /\ InitForms
  /\ currentPage = "voice"
  /\ NoHistory

\* ------------------------------------------------------ transport queue
\* The transport state handed between the handlers of one step.
Transport(q, busy, cs) == [q |-> q, busy |-> busy, cs |-> cs]

\* if (busy || queue.length === 0) return; shift; busy = true; start encoding
processQueue(T) ==
  IF T.busy \/ T.q = <<>> THEN T
  ELSE Transport(Tail(T.q), TRUE, [T.cs EXCEPT ![Head(T.q).id] = "encoding"])

\* a flushChunk that leaves the merged frames in the buffer
flushChunkKeepsBuffer(buf, T, lg, id, sr) ==
  IF buf = <<>>
  THEN [buf |-> buf, T |-> T, logs |-> addLog(lg, "DROP", "chunk vide"), id |-> id]
  ELSE LET merged == Merge(buf)
       IN IF IsSilent(merged)
          THEN [buf |-> <<>>, T |-> T,
                logs |-> addLog(lg, "DROP", "silence"), id |-> id]
          ELSE LET wav == toWav(resample(merged, sr), TARGET_SR)
                   chunk == [id |-> id, wav |-> wav]
               IN [buf |-> buf,
                   T |-> processQueue(Transport(Append(T.q, chunk), T.busy,
                                               T.cs)),
                   logs |-> addLog(lg, "SEND", "chunk"),
                   id |-> id + 1]

\* flushChunk on buffer buf: the new buffer, transport state, log and id counter
flushChunk(buf, T, lg, id, sr) ==
  IF buf = <<>>
  THEN [buf |-> buf, T |-> T, logs |-> addLog(lg, "DROP", "chunk vide"), id |-> id]
  ELSE LET merged == Merge(buf)
       IN IF IsSilent(merged)
          THEN [buf |-> <<>>, T |-> T,
                logs |-> addLog(lg, "DROP", "silence"), id |-> id]
          ELSE LET wav == toWav(resample(merged, sr), TARGET_SR)
                   chunk == [id |-> id, wav |-> wav]
               IN [buf |-> <<>>,
                   T |-> processQueue(Transport(Append(T.q, chunk), T.busy,
                                               T.cs)),
                   logs |-> addLog(lg, "SEND", "chunk"),
                   id |-> id + 1]

CurT == Transport(wsQueueRef, wsBusyRef, conns)

SetT(T) ==
  /\ wsQueueRef' = T.q
  /\ wsBusyRef' = T.busy
  /\ conns' = T.cs

\* a chunk created by a flush belongs to the running recording
Stamp(id) == IF id # nextId THEN [chunkCfg EXCEPT ![nextId] = recCfg]
             ELSE chunkCfg

Forget(f, c, none) == [f EXCEPT ![c] = none]

\* a flush that would accept a chunk needs a free chunk id
CanFlush == pcmBufRef = <<>> \/ IsSilent(Merge(pcmBufRef)) \/ nextId <= MaxChunks

\* ------------------------------------------------------------- recording
\* a startRecording that also empties the transcript
StartRecordingClears ==
  /\ ~isRecording
  /\ wsStatus # "connecting"
  /\ error' = "null"
  /\ wsStatus' = "connecting"
  /\ logs' = addLog(<<>>, "RECV", "START")
  /\ pendingStarts' = pendingStarts + 1
  /\ transcript' = <<>>
  /\ accepted' = <<>>
  /\ UNCHANGED <<cfgVars, stampVars, payloads, offPageVars,
                 isRecording, recordings, runningRef, pcmBufRef,
                 nativeSRRef, procRef, leakedProcs, chunkTmrRef, leakedTmrs,
                 transportVars>>

\* main button while idle: startRecording up to the await of getUserMedia
StartRecording ==
  /\ ~isRecording
  /\ wsStatus # "connecting"
  /\ error' = "null"
  /\ wsStatus' = "connecting"
  /\ logs' = addLog(<<>>, "RECV", "START")
  /\ pendingStarts' = pendingStarts + 1
  /\ UNCHANGED <<cfgVars, stampVars, payloads, offPageVars,
                 isRecording, transcript, recordings, runningRef, pcmBufRef,
                 nativeSRRef, procRef, leakedProcs, chunkTmrRef, leakedTmrs,
                 transportVars, accepted>>

\* getUserMedia resolved: the rest of the try block of startRecording
StartResolve(sr) ==
  /\ pendingStarts > 0
  /\ pendingStarts' = pendingStarts - 1
  /\ procRef' = "node"
  /\ leakedProcs' = IF procRef = "node" THEN leakedProcs + 1 ELSE leakedProcs
  /\ nativeSRRef' = sr
  /\ logs' = addLog(<<>>, "RECV", "Micro ouvert")
  /\ runningRef' = TRUE
  /\ pcmBufRef' = <<>>
  /\ wsQueueRef' = <<>>
  /\ wsBusyRef' = FALSE
  /\ chunkTmrRef' = "live"
  /\ leakedTmrs' = IF chunkTmrRef = "live" THEN leakedTmrs + 1 ELSE leakedTmrs
  /\ wsStatus' = "ready"
  /\ isRecording' = TRUE
  /\ showConfig' = FALSE
  /\ recCfg' = Cfg(engine, nbLocuteurs)
  /\ chunkCfg' = [c \in ChunkIds |->
                    IF \E i \in 1..Len(wsQueueRef) : wsQueueRef[i].id = c
                    THEN NoCfg ELSE chunkCfg[c]]
  /\ UNCHANGED <<engine, nbLocuteurs, payloads, offPageVars,
                 error, transcript, recordings, conns, nextId, accepted>>

\* a catch block that calls startRecording again
StartRejectRetries ==
  /\ pendingStarts > 0
  /\ logs' = addLog(addLog(<<>>, "ERR", "getUserMedia"), "RECV", "START")
  /\ error' = "null"
  /\ wsStatus' = "connecting"
  /\ UNCHANGED <<cfgVars, stampVars, payloads, offPageVars,
                 isRecording, transcript, recordings, pendingStarts,
                 runningRef, pcmBufRef, nativeSRRef, procRef, leakedProcs,
                 chunkTmrRef, leakedTmrs, transportVars, accepted>>

\* getUserMedia rejected: the catch block of startRecording
StartReject ==
  /\ pendingStarts > 0
  /\ pendingStarts' = pendingStarts - 1
  /\ logs' = addLog(<<>>, "ERR", "getUserMedia")
  /\ error' = "mic"
  /\ wsStatus' = "error"
  /\ UNCHANGED <<cfgVars, stampVars, payloads, offPageVars,
                 isRecording, transcript, recordings, runningRef, pcmBufRef,
                 nativeSRRef, procRef, leakedProcs, chunkTmrRef, leakedTmrs,
                 transportVars, accepted>>

\* proc.onaudioprocess of any connected processor node
OnAudioProcess(f) ==
  /\ procRef = "node" \/ leakedProcs > 0
  /\ runningRef => Len(pcmBufRef) < MaxBuf
  /\ pcmBufRef' = IF runningRef THEN Append(pcmBufRef, f) ELSE pcmBufRef
  /\ UNCHANGED <<cfgVars, stampVars, payloads, offPageVars,
                 uiVars, logs, pendingStarts, runningRef, nativeSRRef, procRef,
                 leakedProcs, chunkTmrRef, leakedTmrs, transportVars, accepted>>

\* a tick of any live interval timer created by setInterval(flushChunk, ...)
Tick ==
  /\ chunkTmrRef = "live" \/ leakedTmrs > 0
  /\ CanFlush
  /\ LET r == flushChunk(pcmBufRef, CurT, <<>>, nextId, nativeSRRef)
     IN /\ pcmBufRef' = r.buf
        /\ SetT(r.T)
        /\ logs' = r.logs
        /\ nextId' = r.id
        /\ chunkCfg' = Stamp(r.id)
  /\ UNCHANGED <<cfgVars, recCfg, payloads, offPageVars,
                 uiVars, pendingStarts, runningRef, nativeSRRef, procRef,
                 leakedProcs, chunkTmrRef, leakedTmrs, accepted>>

\* stopRecording with the call of flushChunk left out
StopRecordingNoFlush ==
  /\ isRecording
  /\ wsStatus # "connecting"
  /\ runningRef' = FALSE
  /\ isRecording' = FALSE
  /\ wsStatus' = "disconnected"
  /\ chunkTmrRef' = IF chunkTmrRef = "live" THEN "cleared" ELSE chunkTmrRef
  /\ logs' = addLog(<<>>, "RECV", "STOP")
  /\ procRef' = "null"
  /\ UNCHANGED <<cfgVars, stampVars, payloads, offPageVars,
                 error, transcript, recordings, pendingStarts, pcmBufRef,
                 nativeSRRef, leakedProcs, leakedTmrs, transportVars, accepted>>

\* stopRecording with a teardown that also cancels the pending sends
StopRecordingCancels ==
  /\ isRecording
  /\ wsStatus # "connecting"
  /\ CanFlush
  /\ runningRef' = FALSE
  /\ isRecording' = FALSE
  /\ wsStatus' = "disconnected"
  /\ chunkTmrRef' = IF chunkTmrRef = "live" THEN "cleared" ELSE chunkTmrRef
  /\ LET r == flushChunk(pcmBufRef, CurT, <<>>, nextId, nativeSRRef)
     IN /\ pcmBufRef' = r.buf
        /\ SetT(Transport(<<>>, FALSE, r.T.cs))
        /\ logs' = addLog(r.logs, "RECV", "STOP")
        /\ nextId' = r.id
        /\ chunkCfg' = Stamp(r.id)
  /\ recCfg' = NoCfg
  /\ procRef' = "null"
  /\ UNCHANGED <<cfgVars, payloads, offPageVars,
                 error, transcript, recordings, pendingStarts, nativeSRRef,
                 leakedProcs, leakedTmrs, accepted>>

\* main button while recording
StopRecording ==
  /\ isRecording
  /\ wsStatus # "connecting"
  /\ CanFlush
  /\ runningRef' = FALSE
  /\ isRecording' = FALSE
  /\ wsStatus' = "disconnected"
  /\ chunkTmrRef' = IF chunkTmrRef = "live" THEN "cleared" ELSE chunkTmrRef
  /\ LET r == flushChunk(pcmBufRef, CurT, <<>>, nextId, nativeSRRef)
     IN /\ pcmBufRef' = r.buf
        /\ SetT(r.T)
        /\ logs' = addLog(r.logs, "RECV", "STOP")
        /\ nextId' = r.id
        /\ chunkCfg' = Stamp(r.id)
  /\ recCfg' = NoCfg
  /\ procRef' = "null"
  /\ UNCHANGED <<cfgVars, payloads, offPageVars,
                 error, transcript, recordings, pendingStarts, nativeSRRef,
                 leakedProcs, leakedTmrs, accepted>>

\* --------------------------------------------------- per-chunk connection
\* blobToBase64 resolved and new WebSocket(WS_URL) succeeded
EncodeResolve(c) ==
  /\ conns[c] = "encoding"
  /\ conns' = [conns EXCEPT ![c] = "connecting"]
  /\ logs' = addLog(<<>>, "SEND", "WS ouvert")
  /\ payloads' = [payloads EXCEPT ![c] = buildPayload(engine, nbLocuteurs)]
  /\ chunkCfg' = Forget(chunkCfg, c, NoCfg)
  /\ UNCHANGED <<cfgVars, recCfg, offPageVars,
                 uiVars, captureVars, wsQueueRef, wsBusyRef, nextId, accepted>>

\* blobToBase64 resolved and new WebSocket(WS_URL) threw: the catch block
EncodeResolveThrow(c) ==
  /\ conns[c] = "encoding"
  /\ logs' = addLog(<<>>, "ERR", "WebSocket")
  /\ SetT(processQueue(Transport(wsQueueRef, FALSE,
                                 [conns EXCEPT ![c] = "closed"])))
  /\ chunkCfg' = Forget(chunkCfg, c, NoCfg)
  /\ UNCHANGED <<cfgVars, recCfg, payloads, offPageVars,
                 uiVars, captureVars, nextId, accepted>>

\* blobToBase64 rejected (reader.onerror): the promise has no rejection handler
EncodeReject(c) ==
  /\ conns[c] = "encoding"
  /\ conns' = [conns EXCEPT ![c] = "rejected"]
  /\ chunkCfg' = Forget(chunkCfg, c, NoCfg)
  /\ UNCHANGED <<cfgVars, recCfg, payloads, offPageVars,
                 uiVars, logs, captureVars, wsQueueRef, wsBusyRef, nextId, accepted>>

\* a server that goes on sending after its terminal message
ServerMaySendAfterTerminal(stage) == stage \in {"open", "terminal"}

\* the server of a chunk connection: after the payload it sends status
\* messages and then one terminal message (a result or an error)
ServerMaySend(stage) == stage = "open"

\* ws.onopen: the payload is sent
WsOpen(c) ==
  /\ conns[c] = "connecting"
  /\ conns' = [conns EXCEPT ![c] = "open"]
  /\ payloads' = Forget(payloads, c, NoPayload)
  /\ UNCHANGED <<cfgVars, stampVars, offPageVars,
                 uiVars, logs, captureVars, wsQueueRef, wsBusyRef, nextId, accepted>>

\* ws.onmessage with d.type === "status"
WsStatusMsg(c) ==
  /\ ServerMaySend(conns[c])
  /\ logs' = addLog(<<>>, "RECV", "status")
  /\ UNCHANGED <<cfgVars, stampVars, payloads, offPageVars,
                 uiVars, captureVars, transportVars, accepted>>

\* ws.onmessage with d.type === "result"
WsResult(c, raw) ==
  /\ ServerMaySend(conns[c])
  /\ conns' = [conns EXCEPT ![c] = "terminal"]
  /\ LET txt == ResultText(raw)
     IN /\ IF txt # <<>>
           THEN /\ logs' = addLog(<<>>, "RECV", "result")
                /\ transcript' = AppendText(transcript, txt)
           ELSE /\ logs' = addLog(<<>>, "WARN", "resultat vide")
                /\ transcript' = transcript
        /\ accepted' = IF txt # <<>>
                        THEN Append(accepted, [id |-> c, txt |-> txt])
                        ELSE accepted
  /\ UNCHANGED <<cfgVars, stampVars, payloads, offPageVars,
                 isRecording, wsStatus, error, recordings, captureVars,
                 wsQueueRef, wsBusyRef, nextId>>

\* ws.onmessage with d.type === "error"
WsErrorMsg(c) ==
  /\ ServerMaySend(conns[c])
  /\ conns' = [conns EXCEPT ![c] = "terminal"]
  /\ logs' = addLog(<<>>, "ERR", "erreur serveur")
  /\ UNCHANGED <<cfgVars, stampVars, payloads, offPageVars,
                 uiVars, captureVars, wsQueueRef, wsBusyRef, nextId, accepted>>

\* an onerror handler that also ends the recording
WsErrorAbort(c) ==
  /\ conns[c] \in {"connecting", "open", "terminal"}
  /\ conns' = [conns EXCEPT ![c] = "errored"]
  /\ logs' = addLog(<<>>, "ERR", "WS onerror")
  /\ error' = "server"
  /\ wsStatus' = "error"
  /\ isRecording' = FALSE
  /\ runningRef' = FALSE
  /\ payloads' = Forget(payloads, c, NoPayload)
  /\ UNCHANGED <<cfgVars, stampVars, offPageVars,
                 transcript, recordings, pendingStarts, pcmBufRef, nativeSRRef,
                 procRef, leakedProcs, chunkTmrRef, leakedTmrs, wsQueueRef,
                 wsBusyRef, nextId, accepted>>

\* ws.onerror: the connection failed or dropped
WsError(c) ==
  /\ conns[c] \in {"connecting", "open", "terminal"}
  /\ conns' = [conns EXCEPT ![c] = "errored"]
  /\ logs' = addLog(<<>>, "ERR", "WS onerror")
  /\ error' = "server"
  /\ wsStatus' = "error"
  /\ payloads' = Forget(payloads, c, NoPayload)
  /\ UNCHANGED <<cfgVars, stampVars, offPageVars,
                 isRecording, transcript, recordings, captureVars, wsQueueRef,
                 wsBusyRef, nextId, accepted>>

\* an onclose handler that sends the chunk of a failed connection again
WsCloseRetries(c) ==
  /\ conns[c] \in {"open", "terminal", "errored"}
  /\ logs' = addLog(<<>>, "RECV", "WS ferme")
  /\ IF conns[c] = "errored"
     THEN SetT(Transport(wsQueueRef, TRUE, [conns EXCEPT ![c] = "encoding"]))
     ELSE SetT(processQueue(Transport(wsQueueRef, FALSE,
                                      [conns EXCEPT ![c] = "closed"])))
  /\ UNCHANGED <<cfgVars, stampVars, payloads, offPageVars,
                 uiVars, captureVars, nextId, accepted>>

\* ws.onclose
WsClose(c) ==
  /\ conns[c] \in {"open", "terminal", "errored"}
  /\ logs' = addLog(<<>>, "RECV", "WS ferme")
  /\ SetT(processQueue(Transport(wsQueueRef, FALSE,
                                 [conns EXCEPT ![c] = "closed"])))
  /\ UNCHANGED <<cfgVars, stampVars, payloads, offPageVars,
                 uiVars, captureVars, nextId, accepted>>

\* ---------------------------------------------------- configuration panel
\* the header of the panel: onClick={() => !isRecording && setShowConfig(...)}
ToggleConfig ==
  /\ ~isRecording
  /\ showConfig' = ~showConfig
  /\ UNCHANGED <<uiVars, logs, captureVars, transportVars, accepted, engine,
                 nbLocuteurs, stampVars, payloads, offPageVars>>

\* an engine button of the open panel, with the effect that runs on [engine]
SetEngine(e) ==
  /\ showConfig
  /\ engine' = e
  /\ nbLocuteurs' = IF e = "gladia" /\ nbLocuteurs < 1 THEN 1 ELSE nbLocuteurs
  /\ UNCHANGED <<uiVars, logs, captureVars, transportVars, accepted,
                 showConfig, stampVars, payloads, offPageVars>>

\* a speaker button of the open panel; the button for 1 is disabled on gladia
SetNbLocuteurs(n) ==
  /\ showConfig
  /\ n = 1 => engine # "gladia"
  /\ nbLocuteurs' = n
  /\ UNCHANGED <<uiVars, logs, captureVars, transportVars, accepted, engine,
                 showConfig, stampVars, payloads, offPageVars>>

\* ------------------------------------------------------------ transcript
\* the clear button: setTranscript("")
ClearTranscript ==
  /\ transcript # <<>>
  /\ transcript' = <<>>
  /\ accepted' = <<>>
  /\ UNCHANGED <<cfgVars, stampVars, payloads, offPageVars,
                 isRecording, wsStatus, error, recordings, logs, captureVars,
                 transportVars>>

\* saveRecording, called while not recording: if (!transcript.trim()) return
saveRecording ==
  /\ ~isRecording
  /\ IF Trim(transcript) = <<>>
     THEN UNCHANGED <<recordings, transcript, accepted>>
     ELSE /\ recordings' = Append(recordings, transcript)
          /\ transcript' = <<>>
          /\ accepted' = <<>>
  /\ UNCHANGED <<cfgVars, stampVars, payloads, offPageVars,
                 isRecording, wsStatus, error, logs, captureVars,
                 transportVars>>

\* ------------------------------------------------------------------ Next
Next ==
  \/ StartRecording
  \/ \E sr \in NativeRates : StartResolve(sr)
  \/ StartReject
  \/ \E f \in Frames : OnAudioProcess(f)
  \/ Tick
  \/ StopRecording
  \/ \E c \in ChunkIds : EncodeResolve(c)
  \/ \E c \in ChunkIds : EncodeResolveThrow(c)
  \/ \E c \in ChunkIds : EncodeReject(c)
  \/ \E c \in ChunkIds : WsOpen(c)
  \/ \E c \in ChunkIds : WsStatusMsg(c)
  \/ \E c \in ChunkIds : \E raw \in RawTexts(c) : WsResult(c, raw)
  \/ \E c \in ChunkIds : WsErrorMsg(c)
  \/ \E c \in ChunkIds : WsError(c)
  \/ \E c \in ChunkIds : WsClose(c)

Spec == Init /\ [][Next]_vars

\* the clear and save buttons of the transcript together with the pipeline
\* on connections that do not fail (no onerror, no throwing constructor, no
\* failed encoding; Spec has these)
NextUi ==
  \/ ClearTranscript
  \/ saveRecording
  \/ StartRecording
  \/ \E sr \in NativeRates : StartResolve(sr)
  \/ StartReject
  \/ \E f \in Frames : OnAudioProcess(f)
  \/ Tick
  \/ StopRecording
  \/ \E c \in ChunkIds : EncodeResolve(c)
  \/ \E c \in ChunkIds : WsOpen(c)
  \/ \E c \in ChunkIds : WsStatusMsg(c)
  \/ \E c \in ChunkIds : \E raw \in RawTexts(c) : WsResult(c, raw)
  \/ \E c \in ChunkIds : WsErrorMsg(c)
  \/ \E c \in ChunkIds : WsClose(c)

SpecUi == Init /\ [][NextUi]_vars

\* the configuration panel together with the capture of chunks and their
\* dispatch up to the sending of the payload and the close of the connection
NextCfg ==
  \/ ToggleConfig
  \/ \E e \in Engines : SetEngine(e)
  \/ \E n \in NbChoices : SetNbLocuteurs(n)
  \/ StartRecording
  \/ \E sr \in NativeRates : StartResolve(sr)
  \/ \E f \in Frames : OnAudioProcess(f)
  \/ Tick
  \/ StopRecording
  \/ \E c \in ChunkIds : EncodeResolve(c)
  \/ \E c \in ChunkIds : WsOpen(c)
  \/ \E c \in ChunkIds : WsClose(c)

SpecCfg == Init /\ [][NextCfg]_vars

\* ------------------------------------------------------- audio functions
\* resample(merged, nativeSRRef.current)
CallResample ==
  /\ fnPc = "in"
  /\ fnOut' = resample(fnIn, fnRate)
  /\ fnPc' = "resampled"
  /\ UNCHANGED <<uiVars, logs, captureVars, transportVars, accepted, cfgVars,
                 stampVars, payloads, fnIn, fnRate, fnWav, gladiaVars, formVars, currentPage, historyVars>>

\* toWav(resampled, TARGET_SR)
CallToWav ==
  /\ fnPc = "resampled"
  /\ fnWav' = toWav(fnOut, TARGET_SR)
  /\ fnPc' = "encoded"
  /\ UNCHANGED <<uiVars, logs, captureVars, transportVars, accepted, cfgVars,
                 stampVars, payloads, fnIn, fnRate, fnOut, gladiaVars, formVars, currentPage, historyVars>>

NextAudio ==
  \/ CallResample
  \/ CallToWav

SpecAudio == InitAudio /\ [][NextAudio]_vars

\* ------------------------------------------------- cloud engine (server)
\* what the status endpoint of the remote service answers to one poll
RemoteStatuses == {"processing", "done", "error"}

\* a chunk for the cloud engine has reached transcrire_gladia; gRemote is what
\* the remote service will answer to the successive polls
InitGladia ==
  /\ InitPage
  /\ fnPc = "idle"
  /\ fnIn = <<>>
  /\ fnRate = TARGET_SR
  /\ fnOut = <<>>
  /\ fnWav = <<>>
  /\ gPc = "uploading"
  /\ gRemote \in [1..max_tentatives -> RemoteStatuses]
  /\ tentatives = 0
  /\ gOutcome = "none"
  /\ InitForms
  /\ currentPage = "voice"
  /\ NoHistory

\* the upload of the audio: accepted, then the polling starts, or refused
GladiaUpload(accepted_) ==
  /\ gPc = "uploading"
  /\ gPc' = IF accepted_ THEN "polling" ELSE "ended"
  /\ gOutcome' = IF accepted_ THEN "none" ELSE "rejected"
  /\ UNCHANGED <<uiVars, logs, captureVars, transportVars, accepted, cfgVars,
                 stampVars, payloads, fnVars, formVars, currentPage, historyVars, gRemote, tentatives>>

\* a poll loop that does not count its attempts
GladiaPollForever ==
  /\ gPc = "polling"
  /\ LET status == gRemote[tentatives + 1]
     IN /\ gPc' = IF status = "processing" THEN "polling" ELSE "ended"
        /\ gOutcome' = IF status = "done" THEN "result"
                        ELSE IF status = "error" THEN "remote_error"
                        ELSE "none"
  /\ UNCHANGED <<uiVars, logs, captureVars, transportVars, accepted, cfgVars,
                 stampVars, payloads, fnVars, formVars, currentPage, historyVars, gRemote, tentatives>>

\* one turn of the poll loop: ask the status endpoint, return the result or
\* the remote error, and give up with a timeout after max_tentatives polls
GladiaPoll ==
  /\ gPc = "polling"
  /\ tentatives < max_tentatives
  /\ tentatives' = tentatives + 1
  /\ LET status == gRemote[tentatives + 1]
     IN IF status = "done"
        THEN gPc' = "ended" /\ gOutcome' = "result"
        ELSE IF status = "error"
        THEN gPc' = "ended" /\ gOutcome' = "remote_error"
        ELSE IF tentatives + 1 = max_tentatives
        THEN gPc' = "ended" /\ gOutcome' = "timeout"
        ELSE gPc' = "polling" /\ gOutcome' = "none"
  /\ UNCHANGED <<uiVars, logs, captureVars, transportVars, accepted, cfgVars,
                 stampVars, payloads, fnVars, formVars, currentPage, historyVars, gRemote>>

NextGladia ==
  \/ \E ok \in BOOLEAN : GladiaUpload(ok)
  \/ GladiaPoll

\* the poll loop is sequential code of the server: it keeps running
SpecGladia == InitGladia /\ [][NextGladia]_vars /\ WF_vars(GladiaPoll)

\* ------------------------------------------------- flush of a full buffer
\* frames of a recording under way: the two of Frames and a loud one
FlushFrames == Frames \cup {<<1000, -500>>}

\* a recording under way whose buffer holds the frames captured since the
\* last flush, before any chunk was accepted or while chunk 1 is being encoded
InitFlush ==
  /\ isRecording = TRUE
  /\ wsStatus = "ready"
  /\ error = "null"
  /\ transcript = <<>>
  /\ recordings = <<>>
  /\ accepted = <<>>
  /\ pendingStarts = 0
  /\ runningRef = TRUE
  /\ pcmBufRef \in BoundedSeq(FlushFrames, MaxFrames)
  /\ nativeSRRef \in NativeRates
  /\ procRef = "node"
  /\ leakedProcs = 0
  /\ chunkTmrRef = "live"
  /\ leakedTmrs = 0
  /\ wsQueueRef = <<>>
  /\ engine = "whisper"
  /\ nbLocuteurs = 2
  /\ showConfig = FALSE
  /\ recCfg = Cfg("whisper", 2)
  /\ payloads = [c \in ChunkIds |-> NoPayload]
  /\ \E sending \in BOOLEAN :
       /\ wsBusyRef = sending
       /\ nextId = IF sending THEN 2 ELSE 1
       /\ conns = [c \in ChunkIds |->
                     IF sending /\ c = 1 THEN "encoding" ELSE "none"]
       /\ chunkCfg = [c \in ChunkIds |->
                        IF sending /\ c = 1 THEN recCfg ELSE NoCfg]
       /\ logs = IF sending THEN addLog(<<>>, "SEND", "chunk")
                 ELSE addLog(<<>>, "RECV", "Micro ouvert")
  /\ fnPc = "idle"
  /\ fnIn = <<>>
  /\ fnRate = TARGET_SR
  /\ fnOut = <<>>
  /\ fnWav = <<>>
  /\ NoGladia
  /\ InitForms
  /\ currentPage = "voice"
  /\ NoHistory

NextFlush ==
  \/ \E f \in Frames : OnAudioProcess(f)
  \/ Tick
  \/ StopRecording
  \/ \E c \in ChunkIds : EncodeResolve(c)
  \/ \E c \in ChunkIds : WsOpen(c)
  \/ \E c \in ChunkIds : WsClose(c)

SpecFlush == InitFlush /\ [][NextFlush]_vars

\* ------------------------------------------------------------ forms page
\* texts of the saved recordings read from localStorage
SavedTexts == {<<" ">>, <<"a">>}
\* two fields of MEDICAL_FORM and the values typed or extracted for them
FieldNames == {"age", "symptomes"}
FieldValues == {"x", "y"}
\* the form values: a value for some of the fields
FormValues == UNION {[F -> FieldValues] : F \in SUBSET FieldNames}
\* what POST /extract answers with status 200
ExtractResponses ==
  {[success |-> TRUE, data |-> d] : d \in FormValues}
    \cup {[success |-> FALSE, data |-> <<>>]}
\* messages of the errors thrown by extractFormData: the detail of a response
\* that is not ok, its default text, and the message of a failed fetch
ExtractErrors == {"detail", "Erreur extraction", "Failed to fetch"}

pageVars == <<uiVars, logs, captureVars, transportVars, accepted, cfgVars,
              stampVars, payloads>>

loadExistingRecording(text) ==
  /\ formTranscript' = text
  /\ formError' = "null"
  /\ formData' = <<>>
  /\ UNCHANGED <<pageVars, fnVars, gladiaVars, currentPage, historyVars, isExtracting, extractReq>>

handleFieldChange(fieldName, value) ==
  /\ formData' = [f \in DOMAIN formData \cup {fieldName} |->
                    IF f = fieldName THEN value ELSE formData[f]]
  /\ UNCHANGED <<pageVars, fnVars, gladiaVars, currentPage, historyVars, formTranscript, isExtracting,
                 formError, extractReq>>

\* the fill button: autoFillForm up to the await of extractFormData
autoFillForm ==
  /\ formTranscript # <<>>
  /\ ~isExtracting
  /\ IF Trim(formTranscript) = <<>>
     THEN /\ formError' = "Veuillez selectionner"
          /\ UNCHANGED <<isExtracting, extractReq>>
     ELSE /\ isExtracting' = TRUE
          /\ formError' = "null"
          /\ extractReq' = "pending"
  /\ UNCHANGED <<pageVars, fnVars, gladiaVars, currentPage, historyVars, formTranscript, formData>>

\* extractFormData resolved: the rest of the try block, then the finally block
ExtractResolve(result) ==
  /\ extractReq = "pending"
  /\ extractReq' = "none"
  /\ IF result.success
     THEN formData' = result.data /\ formError' = "null"
     ELSE formData' = formData /\ formError' = "Extraction echouee"
  /\ isExtracting' = FALSE
  /\ UNCHANGED <<pageVars, fnVars, gladiaVars, currentPage, historyVars, formTranscript>>

\* an autoFillForm whose flag is cleared at the end of the try block only
ExtractRejectNoFinally(message) ==
  /\ extractReq = "pending"
  /\ extractReq' = "none"
  /\ formError' = message
  /\ UNCHANGED <<pageVars, fnVars, gladiaVars, currentPage, historyVars, formTranscript, formData,
                 isExtracting>>

\* extractFormData threw: the catch block, then the finally block
ExtractReject(message) ==
  /\ extractReq = "pending"
  /\ extractReq' = "none"
  /\ formError' = message
  /\ isExtracting' = FALSE
  /\ UNCHANGED <<pageVars, fnVars, gladiaVars, currentPage, historyVars, formTranscript, formData>>

NextForms ==
  \/ \E text \in SavedTexts : loadExistingRecording(text)
  \/ \E f \in FieldNames : \E v \in FieldValues : handleFieldChange(f, v)
  \/ autoFillForm
  \/ \E result \in ExtractResponses : ExtractResolve(result)
  \/ \E message \in ExtractErrors : ExtractReject(message)

\* the request of extractFormData ends: fetch resolves or rejects
ExtractSettles ==
  \/ \E result \in ExtractResponses : ExtractResolve(result)
  \/ \E message \in ExtractErrors : ExtractReject(message)

\* the forms page has been opened from the navigation bar
InitOnForms ==
  /\ InitPage
  /\ fnPc = "idle"
  /\ fnIn = <<>>
  /\ fnRate = TARGET_SR
  /\ fnOut = <<>>
  /\ fnWav = <<>>
  /\ NoGladia
  /\ InitForms
  /\ currentPage = "forms"
  /\ NoHistory

SpecForms == InitOnForms /\ [][NextForms]_vars /\ WF_vars(ExtractSettles)

\* ------------------------------------------------------------ navigation
Pages == {"voice", "history", "forms"}

\* a button of the navigation bar that leaves the voice page or moves between
\* the other pages.  The voice page is unmounted and its state discarded; its
\* refs, timers and audio nodes live on in the callbacks that hold them.
onPageChange(page) ==
  /\ page # currentPage
  /\ page # "voice"
  /\ currentPage' = page
  /\ UNCHANGED <<pageVars, fnVars, gladiaVars, formVars, historyVars>>

\* the voice page from its first render until the user has left it: its
\* buttons exist while it is mounted, its callbacks run whenever they fire
NextNav ==
  \/ \E page \in Pages : onPageChange(page)
  \/ currentPage = "voice" /\ StartRecording
  \/ currentPage = "voice" /\ StopRecording
  \/ \E sr \in NativeRates : StartResolve(sr)
  \/ StartReject
  \/ \E f \in Frames : OnAudioProcess(f)
  \/ Tick
  \/ \E c \in ChunkIds : EncodeResolve(c)
  \/ \E c \in ChunkIds : WsOpen(c)
  \/ \E c \in ChunkIds : \E raw \in RawTexts(c) : WsResult(c, raw)
  \/ \E c \in ChunkIds : WsClose(c)

SpecNav == Init /\ [][NextNav]_vars

\* ---------------------------------------------------------- history page
\* In the history page a record of localStorage is taken as its id, a number
\* (Date.now() at the save, so save order is increasing order); 0 is null.
RecordIds == 1..MaxSaved

RECURSIVE Reverse(_)
\* Array.prototype.reverse
Reverse(s) == IF s = <<>> THEN <<>> ELSE Append(Reverse(Tail(s)), Head(s))

\* Array.prototype.filter with r.id !== id
WithoutId(s, id) == SelectSeq(s, LAMBDA r : r # id)

Increasing(s) == \A i, j \in 1..Len(s) : i < j => s[i] < s[j]

\* the history page has been opened on the records written by saveRecording,
\* and its effect has run loadRecordings
InitHistory ==
  /\ isRecording = FALSE
  /\ wsStatus = "disconnected"
  /\ error = "null"
  /\ transcript = <<>>
  /\ recordings \in {s \in BoundedSeq(RecordIds, MaxSaved) : Increasing(s)}
  /\ logs = <<>>
  /\ pendingStarts = 0
  /\ runningRef = FALSE
  /\ pcmBufRef = <<>>
  /\ nativeSRRef = TARGET_SR
  /\ procRef = "null"
  /\ leakedProcs = 0
  /\ chunkTmrRef = "null"
  /\ leakedTmrs = 0
  /\ wsQueueRef = <<>>
  /\ wsBusyRef = FALSE
  /\ conns = [c \in ChunkIds |-> "none"]
  /\ nextId = 1
  /\ accepted = <<>>
  /\ engine = "whisper"
  /\ nbLocuteurs = 2
  /\ showConfig = FALSE
  /\ recCfg = NoCfg
  /\ chunkCfg = [c \in ChunkIds |-> NoCfg]
  /\ payloads = [c \in ChunkIds |-> NoPayload]
  /\ fnPc = "idle"
  /\ fnIn = <<>>
  /\ fnRate = TARGET_SR
  /\ fnOut = <<>>
  /\ fnWav = <<>>
  /\ NoGladia
  /\ InitForms
  /\ currentPage = "history"
  /\ historyRecordings = Reverse(recordings)
  /\ selectedRecording = 0

\* the page is opened again: its state is new and its effect runs
\* loadRecordings, which shows the stored list reversed
loadRecordings ==
  /\ historyRecordings' = Reverse(recordings)
  /\ selectedRecording' = 0
  /\ UNCHANGED <<pageVars, fnVars, gladiaVars, formVars, currentPage>>

\* a click on a record of the list
setSelectedRecording(id) ==
  /\ \E i \in 1..Len(historyRecordings) : historyRecordings[i] = id
  /\ selectedRecording' = id
  /\ UNCHANGED <<pageVars, fnVars, gladiaVars, formVars, currentPage,
                 historyRecordings>>

\* deleteRecording(id) with the answer given to confirm(): updated.reverse()
\* reverses updated in place and returns it, so the stored list and the new
\* state are one and the same array
deleteRecording(id, confirmed) ==
  /\ \E i \in 1..Len(historyRecordings) : historyRecordings[i] = id
  /\ IF confirmed
     THEN LET updated == WithoutId(historyRecordings, id)
          IN /\ recordings' = Reverse(updated)
             /\ historyRecordings' = Reverse(updated)
             /\ selectedRecording' = IF selectedRecording = id THEN 0
                                     ELSE selectedRecording
     ELSE UNCHANGED <<recordings, historyRecordings, selectedRecording>>
  /\ UNCHANGED <<isRecording, wsStatus, error, transcript, logs, captureVars,
                 transportVars, accepted, cfgVars, stampVars, payloads,
                 fnVars, gladiaVars, formVars, currentPage>>

NextHistory ==
  \/ loadRecordings
  \/ \E id \in RecordIds : setSelectedRecording(id)
  \/ \E id \in RecordIds : \E confirmed \in BOOLEAN :
       deleteRecording(id, confirmed)

SpecHistory == InitHistory /\ [][NextHistory]_vars

\* ================================================================ claims
\* a send is in progress from the dequeue until its connection has closed
InFlightStages == {"encoding", "connecting", "open", "terminal", "errored"}
Outstanding(c) == conns[c] \in InFlightStages
EndedStages == {"closed", "rejected"}

\* the step in which processQueue dequeues chunk c
DispatchStep(c) == conns[c] = "none" /\ conns'[c] = "encoding"

\* RMS energy below the threshold 0.004, on amplitudes in thousandths
RmsBelowThreshold(m) == SumSq(m) < 16 * Len(m)

InQueue(q, id) == \E i \in 1..Len(q) : q[i].id = id

LastLog == logs[Len(logs)]

\* C1: in every reachable state at most one chunk transmission is outstanding
\* (dequeued by processQueue and its connection not yet closed).
C1_AtMostOneOutstanding ==
  Cardinality({c \in ChunkIds : Outstanding(c)}) <= 1

\* C2: chunks are dispatched in the order of their creation, and a chunk is
\* not dispatched until the send of every chunk created and dispatched before
\* it has ended.
C2_FifoOneAtATime ==
  [][\A c \in ChunkIds :
       DispatchStep(c) =>
         /\ \A a \in ChunkIds :
              (a < c /\ conns[a] # "none") => conns'[a] \in EndedStages
         /\ \A d \in ChunkIds : d > c => conns[d] = "none"]_vars

\* C3: a flush (timer tick or the final flush of stopRecording) of a buffer
\* whose RMS is below the silence threshold enqueues nothing, sends nothing
\* and discards the buffer.
C3_SilentFlushDropped ==
  [][(pcmBufRef # <<>> /\ RmsBelowThreshold(Merge(pcmBufRef))
        /\ (Tick \/ StopRecording))
       => /\ wsQueueRef' = wsQueueRef
          /\ conns' = conns
          /\ nextId' = nextId
          /\ pcmBufRef' = <<>>]_vars

\* a tick has just dropped a silent buffer that was not empty
C3_Witness ==
  /\ logs = <<LogLine("DROP", "silence")>>
  /\ pcmBufRef = <<>>
  /\ isRecording

\* the accepted texts of the chunks 1..n in capture order, single-space joined
RECURSIVE JoinInCaptureOrder(_, _)
JoinInCaptureOrder(acc, n) ==
  IF n = 0 THEN <<>>
  ELSE LET before == JoinInCaptureOrder(acc, n - 1)
           mine == {i \in 1..Len(acc) : acc[i].id = n}
       IN IF mine = {} THEN before
          ELSE LET t == acc[CHOOSE i \in mine : TRUE].txt
               IN IF before = <<>> THEN t ELSE before \o <<" ">> \o t

\* C4: the running transcript equals the single-space join of the non-empty
\* trimmed result texts since the last reset, in the capture order of their
\* chunks.
C4_TranscriptInCaptureOrder ==
  transcript = JoinInCaptureOrder(accepted, MaxChunks)

\* C5: on a result message the trimmed text (a missing field is empty) is
\* appended with exactly one space when the old transcript is non-empty and
\* does not end in whitespace, with no separator when it is empty; an empty
\* text leaves the transcript unchanged and logs a WARN line.
C5_AggregatorRule ==
  [][\A c \in ChunkIds : \A raw \in RawTexts(c) :
       WsResult(c, raw) =>
         LET t == IF raw.has THEN Trim(raw.s) ELSE <<>>
             sep == IF transcript # <<>>
                       /\ transcript[Len(transcript)] \notin Whitespace
                    THEN <<" ">> ELSE <<>>
         IN IF t # <<>>
            THEN transcript' = transcript \o sep \o t
            ELSE /\ transcript' = transcript
                 /\ logs' # <<>>
                 /\ logs'[Len(logs')].tag = "WARN"]_vars

\* two results have been appended, the second one behind a separator
C5_Witness ==
  /\ Len(accepted) = 2
  /\ Len(transcript) = 3
  /\ transcript[2] = " "

\* C6: once the in-flight send has ended, in failure or not, the busy flag is
\* clear: no state has the flag set while no send is in progress.
C6_FailedSendReleasesBusy ==
  wsBusyRef => \E c \in ChunkIds : Outstanding(c)

\* C7: a transport error or a server error message leaves isRecording, the
\* running flag, the chunk timers and the pending queue unchanged; afterwards
\* a voiced buffer is still enqueued by a tick and the close of the errored
\* connection dispatches the next pending chunk.
C7_ErrorKeepsRecording ==
  [][/\ \A c \in ChunkIds :
          \/ UNCHANGED <<isRecording, runningRef, chunkTmrRef, leakedTmrs,
                         wsQueueRef, pcmBufRef>>
          \/ ~(WsError(c) \/ WsErrorMsg(c))
     /\ (pcmBufRef # <<>> /\ ~RmsBelowThreshold(Merge(pcmBufRef)) /\ Tick) =>
          /\ nextId' = nextId + 1
          /\ isRecording' = isRecording
          /\ InQueue(wsQueueRef', nextId) \/ conns'[nextId] = "encoding"
     /\ \A c \in ChunkIds :
          (conns[c] = "errored" /\ wsQueueRef # <<>> /\ WsClose(c)) =>
            conns'[Head(wsQueueRef).id] = "encoding"]_vars

\* the recording is still on after a transport error and a tick has just
\* enqueued a chunk
C7_Witness ==
  /\ isRecording
  /\ runningRef
  /\ error = "server"
  /\ wsStatus = "error"
  /\ logs = <<LogLine("SEND", "chunk")>>

\* C8: a chunk leaves the pending queue only by being dispatched.
C8_NoPendingChunkDropped ==
  [][\A i \in 1..Len(wsQueueRef) :
       \/ InQueue(wsQueueRef', wsQueueRef[i].id)
       \/ conns'[wsQueueRef[i].id] # "none"]_vars

\* C9: while the recording is stopped no frame enters the capture buffer, no
\* chunk is created and no chunk timer fires a flush.
C9_NothingAfterStop ==
  [][~runningRef =>
       /\ pcmBufRef' = pcmBufRef \/ pcmBufRef' = <<>>
       /\ nextId' = nextId
       /\ ~Tick]_vars

\* C10: stopRecording flushes the partial buffer exactly once through the
\* checks of a tick (empty: dropped; below the threshold: dropped; otherwise
\* one chunk enqueued) while the capture resources are still held, and
\* releases them in the same call.
C10_StopFlushesOnce ==
  [][StopRecording =>
       /\ procRef = "node"
       /\ procRef' = "null"
       /\ pcmBufRef' = <<>>
       /\ IF pcmBufRef = <<>> \/ RmsBelowThreshold(Merge(pcmBufRef))
          THEN /\ nextId' = nextId
               /\ wsQueueRef' = wsQueueRef
               /\ conns' = conns
          ELSE /\ nextId' = nextId + 1
               /\ InQueue(wsQueueRef', nextId) \/ conns'[nextId] = "encoding"
               /\ Len(wsQueueRef') <= Len(wsQueueRef) + 1]_vars

\* stopRecording has just enqueued the final chunk and released the capture
C10_Witness ==
  /\ logs = <<LogLine("SEND", "chunk"), LogLine("RECV", "STOP")>>
  /\ procRef = "null"
  /\ ~isRecording

\* C11: stopRecording releases the capture resources in the step in which it
\* is called whether or not a send is in flight; the sends in flight and the
\* chunks pending before the call are still in flight and pending after it,
\* and the busy flag of a send in flight stays set.
C11_TeardownDoesNotWait ==
  [][StopRecording =>
       /\ procRef' = "null"
       /\ \A c \in ChunkIds : Outstanding(c) => conns'[c] = conns[c]
       /\ wsBusyRef =>
            /\ wsBusyRef'
            /\ Len(wsQueueRef') >= Len(wsQueueRef)
            /\ SubSeq(wsQueueRef', 1, Len(wsQueueRef)) = wsQueueRef]_vars

\* the capture has been released while a send is in flight and a chunk pending
C11_Witness ==
  /\ procRef = "null"
  /\ ~isRecording
  /\ logs # <<>> /\ LastLog = LogLine("RECV", "STOP")
  /\ wsBusyRef
  /\ wsQueueRef # <<>>
  /\ \E c \in ChunkIds : Outstanding(c)

\* C12: the payload of every chunk carries the engine and the speaker count
\* that were selected when the recording of the chunk started, whatever is
\* selected afterwards, also for a chunk still pending after stop.
C12_ConfigFrozenAtStart ==
  [][\A c \in ChunkIds :
       EncodeResolve(c) =>
         payloads'[c] = buildPayload(chunkCfg[c].engine, chunkCfg[c].nb)]_vars

\* C13: every payload built for sending names one of the three engines and
\* its nb_locuteurs is at least the floor of that engine.
C13_PayloadEngineAndFloor ==
  \A c \in ChunkIds :
    payloads[c] # NoPayload =>
      /\ payloads[c].engine \in {"vosk", "whisper", "gladia"}
      /\ payloads[c].nb_locuteurs >=
            (IF payloads[c].engine = "gladia" THEN 0 ELSE 1)

\* a payload for gladia with one speaker waits for its socket to open
C13_Witness ==
  \E c \in ChunkIds :
    /\ conns[c] = "connecting"
    /\ payloads[c] = buildPayload("gladia", 1)

\* C14: a chunk is dispatched at most once: a chunk that has left the pending
\* queue never enters it again, and a chunk that has been dispatched is never
\* dispatched again, whether its send succeeded or failed.
C14_NoRetry ==
  [][\A c \in ChunkIds :
       /\ (c < nextId /\ ~InQueue(wsQueueRef, c)) => ~InQueue(wsQueueRef', c)
       /\ conns[c] # "none" =>
            /\ conns'[c] # "none"
            /\ conns'[c] = "encoding" => conns[c] = "encoding"]_vars

\* the send of chunk 1 failed and ended, and chunk 2 has been dispatched
C14_Witness ==
  /\ error = "server"
  /\ conns[1] = "closed"
  /\ conns[2] \notin {"none", "closed"}
  /\ ~InQueue(wsQueueRef, 1)

\* C15: a failed microphone acquisition starts nothing: isRecording and the
\* running flag keep their value, no chunk timer is created and nothing is
\* enqueued or dispatched; the error is shown (message set, status error) and
\* the acquisition is not tried again.
C15_FailedStartDoesNotRecord ==
  [][StartReject =>
       /\ UNCHANGED <<isRecording, runningRef, chunkTmrRef, leakedTmrs,
                      procRef, wsQueueRef, wsBusyRef, conns, nextId>>
       /\ ~isRecording => ~isRecording' /\ ~runningRef'
       /\ error' = "mic"
       /\ wsStatus' = "error"
       /\ pendingStarts' = pendingStarts - 1]_vars

\* the only acquisition has just failed: nothing records, the error is shown
C15_Witness ==
  /\ logs = <<LogLine("ERR", "getUserMedia")>>
  /\ error = "mic"
  /\ wsStatus = "error"
  /\ ~isRecording
  /\ ~runningRef
  /\ chunkTmrRef = "null"
  /\ pendingStarts = 0

\* C16: the transcript changes only by a result message, the clear button or
\* a save, and it becomes empty only by the clear button or a save that
\* stored it; saveRecording on a blank transcript changes neither the
\* transcript nor the stored recordings.
C16_TranscriptResetOnlyByClearOrSave ==
  [][/\ transcript' # transcript =>
          \/ ClearTranscript
          \/ saveRecording
          \/ \E c \in ChunkIds : \E raw \in RawTexts(c) : WsResult(c, raw)
     /\ (transcript # <<>> /\ transcript' = <<>>) =>
          \/ ClearTranscript /\ recordings' = recordings
          \/ saveRecording /\ recordings' = Append(recordings, transcript)
     /\ (saveRecording /\ Trim(transcript) = <<>>) =>
          transcript' = transcript /\ recordings' = recordings]_vars

\* a transcript has been saved and reset, and the next one cleared or not begun
C16_Witness ==
  /\ recordings # <<>>
  /\ transcript = <<>>
  /\ \E c \in ChunkIds : conns[c] = "closed"

\* C17: on a chunk connection every message (status, result, error) arrives
\* before the terminal message of that connection: after a result or an
\* error message no further message is handled, the connection only fails or
\* closes, and at most one result text per chunk is appended.
C17_OneTerminalMessage ==
  [][\A c \in ChunkIds :
       /\ conns[c] # "open" =>
            /\ ~WsStatusMsg(c)
            /\ ~WsErrorMsg(c)
            /\ \A raw \in RawTexts(c) : ~WsResult(c, raw)
       /\ conns[c] = "terminal" => conns'[c] \in {"terminal", "errored", "closed"}
       /\ Cardinality({i \in 1..Len(accepted') : accepted'[i].id = c}) <= 1]_vars

\* the result of chunk 1 has just been appended, its connection is not closed
C17_Witness ==
  /\ conns[1] = "terminal"
  /\ logs = <<LogLine("RECV", "result")>>
  /\ \E i \in 1..Len(accepted) : accepted[i].id = 1

\* C18: the in-flight slot is held from the dispatch of a chunk until its
\* terminal outcome has arrived: while a dispatched chunk still waits for
\* its result or error, the busy flag is set.
C18_SlotHeldUntilOutcome ==
  \A c \in ChunkIds :
    conns[c] \in {"encoding", "connecting", "open"} => wsBusyRef

\* C19: resample returns its input when the native rate is the target rate;
\* at twice the target rate the output has half the samples of the input,
\* within one; and for every rate the output length is
\* round(inputLength * 16000 / nativeRate), halves rounded up.
C19_ResampleLength ==
  fnPc \in {"resampled", "encoded"} =>
    /\ fnRate = 16000 => fnOut = fnIn
    /\ fnRate = 32000 => 2 * Len(fnOut) - Len(fnIn) \in -2..2
    /\ LET twice == 2 * (Len(fnOut) * fnRate - Len(fnIn) * 16000)
       IN -fnRate < twice /\ twice <= fnRate

\* three samples at 32000 Hz have been resampled to two
C19_Witness ==
  /\ fnPc = "resampled"
  /\ fnRate = 32000
  /\ Len(fnIn) = 3
  /\ Len(fnOut) = 2

\* C20 as claimed: the output of the encoder for n samples is 16-bit PCM,
\* mono, at the target rate, and its byte length is n * 2.
C20_OutputIsTwoBytesPerSample ==
  fnPc = "encoded" =>
    /\ fnWav.bits = 16
    /\ fnWav.channels = 1
    /\ fnWav.rate = 16000
    /\ fnWav.size = Len(fnOut) * 2

\* C20 amended: the output of the encoder for n samples is a WAV blob, a
\* 44-byte header that declares PCM, 16 bits, mono and the target rate,
\* followed by n 16-bit samples: n * 2 bytes of data, 44 + n * 2 bytes in all.
C20_WavHeaderAndData ==
  fnPc = "encoded" =>
    /\ fnWav.format = 1
    /\ fnWav.bits = 16
    /\ fnWav.channels = 1
    /\ fnWav.rate = 16000
    /\ fnWav.byteRate = 32000
    /\ fnWav.blockAlign = 2
    /\ Len(fnWav.data) = Len(fnOut)
    /\ \A i \in 1..Len(fnWav.data) : fnWav.data[i] \in -32768..32767
    /\ fnWav.dataSize = Len(fnOut) * 2
    /\ fnWav.riffSize = 36 + Len(fnOut) * 2
    /\ fnWav.size = 44 + Len(fnOut) * 2

\* two samples, one of them clipped, have been encoded into 48 bytes
C20_Witness ==
  /\ fnPc = "encoded"
  /\ Len(fnOut) = 2
  /\ fnOut[1] = -1500
  /\ fnWav.data[1] = -32768
  /\ fnWav.size = 48

\* C21: the message sent on a connection has exactly the fields documented
\* for its engine, it is sent when the connection opens, and a connection
\* opens, and so sends, at most once.
C21_PayloadFieldsPerEngine ==
  [][\A c \in ChunkIds :
       /\ (conns[c] = "connecting" /\ WsOpen(c)) =>
            LET p == payloads[c]
            IN /\ p.engine \in {"vosk", "whisper", "gladia"}
               /\ p.engine = "vosk" =>
                    DOMAIN p = {"engine", "audio", "nb_locuteurs",
                                "modele_vosk", "methode_bruit",
                                "type_environnement"}
               /\ p.engine = "whisper" =>
                    DOMAIN p = {"engine", "audio", "nb_locuteurs",
                                "config_whisper", "methode_bruit",
                                "type_environnement"}
               /\ p.engine = "gladia" =>
                    DOMAIN p = {"engine", "audio", "nb_locuteurs"}
               /\ payloads'[c] = NoPayload
       /\ (conns'[c] = "open" /\ conns[c] # "open") => conns[c] = "connecting"
       /\ conns[c] \in {"open", "terminal", "errored", "closed"} =>
            conns'[c] \notin {"encoding", "connecting"}]_vars

\* the message of chunk 1 has been sent and a gladia payload waits for the
\* opening of the connection of chunk 2
C21_Witness ==
  /\ conns[1] = "open"
  /\ payloads[1] = NoPayload
  /\ conns[2] = "connecting"
  /\ payloads[2] = buildPayload("gladia", 2)

\* C22: a cloud transcription polls the remote service at most
\* max_tentatives times; it ends with a timeout exactly when every poll of
\* the budget found the remote not ready, a remote error being another
\* outcome; and a transcription that polls always ends.
C22_PollingEndsWithinBudget ==
  /\ [](tentatives <= max_tentatives)
  /\ [](gOutcome = "timeout" <=>
          /\ gPc = "ended"
          /\ tentatives = max_tentatives
          /\ \A i \in 1..max_tentatives : gRemote[i] = "processing")
  /\ [](gOutcome = "remote_error" =>
          /\ gPc = "ended"
          /\ tentatives >= 1
          /\ gRemote[tentatives] = "error")
  /\ (gPc = "polling" ~> gPc = "ended")

\* the budget has been used up on a remote that never became ready
C22_Witness ==
  /\ gPc = "ended"
  /\ gOutcome = "timeout"
  /\ tentatives = max_tentatives

\* C23: a flush builds its chunk from exactly the frames of the capture
\* buffer, in capture order, and empties the buffer; frames enter the buffer
\* only at its end, one per capture; a flush of an empty buffer emits nothing.
C23_ChunkFromFramesSinceLastFlush ==
  [][/\ (pcmBufRef # <<>> /\ (Tick \/ StopRecording)) =>
          /\ pcmBufRef' = <<>>
          /\ ~RmsBelowThreshold(Merge(pcmBufRef)) =>
               LET wav == toWav(resample(Merge(pcmBufRef), nativeSRRef),
                                TARGET_SR)
               IN /\ nextId' = nextId + 1
                  /\ wsBusyRef =>
                       wsQueueRef' =
                         Append(wsQueueRef, [id |-> nextId, wav |-> wav])
                  /\ ~wsBusyRef /\ wsQueueRef = <<>> =>
                       conns'[nextId] = "encoding" /\ wsQueueRef' = <<>>
                  /\ nativeSRRef = 2 * TARGET_SR =>
                       /\ Len(wav.data) = Len(pcmBufRef)
                       /\ \A i \in 1..Len(pcmBufRef) :
                            wav.data[i] = ToInt16(pcmBufRef[i][1])
     /\ (pcmBufRef = <<>> /\ (Tick \/ StopRecording)) =>
          UNCHANGED <<pcmBufRef, wsQueueRef, conns, nextId>>
     /\ pcmBufRef' # pcmBufRef =>
          \/ pcmBufRef' = <<>>
          \/ \E f \in FlushFrames : pcmBufRef' = Append(pcmBufRef, f)]_vars

\* two frames have been flushed into chunk 2, which waits with their samples
\* in capture order behind the send of chunk 1, and the buffer is empty
C23_Witness ==
  /\ pcmBufRef = <<>>
  /\ logs = <<LogLine("SEND", "chunk")>>
  /\ wsBusyRef
  /\ Len(wsQueueRef) = 1
  /\ wsQueueRef[1].id = 2
  /\ wsQueueRef[1].wav.data = <<ToInt16(4), ToInt16(1000)>>

\* C24: a chunk enqueued while no send is in flight is dispatched in the same
\* step, a chunk enqueued while a send is in flight waits in the queue, and a
\* non-empty pending queue implies that the busy flag is set.
C24_WorkConserving ==
  [][/\ (nextId' = nextId + 1 /\ (Tick \/ StopRecording)) =>
          IF \E c \in ChunkIds : Outstanding(c)
          THEN InQueue(wsQueueRef', nextId) /\ conns'[nextId] = "none"
          ELSE conns'[nextId] = "encoding" /\ ~InQueue(wsQueueRef', nextId)
     /\ wsQueueRef # <<>> => wsBusyRef
     /\ wsQueueRef' # <<>> => wsBusyRef']_vars

\* C25: the recording becomes active only from the connecting state, when
\* getUserMedia has resolved; startRecording is not called while an earlier
\* start still waits for getUserMedia or while a recording is active; and
\* stopRecording returns the page to idle.
C25_Lifecycle ==
  [][/\ (~isRecording /\ isRecording') =>
          /\ wsStatus = "connecting"
          /\ \E sr \in NativeRates : StartResolve(sr)
     /\ (wsStatus' = "connecting" /\ StartRecording) =>
          pendingStarts = 0 /\ ~isRecording
     /\ (isRecording /\ StopRecording) =>
          /\ ~isRecording'
          /\ ~runningRef'
          /\ wsStatus' = "disconnected"
          /\ procRef' = "null"]_vars

C27_TimerOnlyWhileRecording ==
  /\ leakedTmrs = 0
  /\ leakedProcs = 0
  /\ (chunkTmrRef = "live" \/ procRef = "node") =>
       isRecording /\ currentPage = "voice"

\* C28: a save takes place only when no chunk is pending and no chunk in
\* flight still waits for its result, so that no result arrives after the
\* save and stays outside the saved text.
C28_SaveAfterAllResults ==
  [][(recordings' # recordings /\ saveRecording) =>
       /\ wsQueueRef = <<>>
       /\ \A c \in ChunkIds : conns[c] \notin {"encoding", "connecting", "open"}]_vars

\* C29: no payload with engine gladia carries nb_locuteurs = 1.
C29_NoSingleSpeakerOnGladia ==
  \A c \in ChunkIds :
    (payloads[c] # NoPayload /\ payloads[c].engine = "gladia") =>
      payloads[c].nb_locuteurs # 1

\* C30: a confirmed deleteRecording removes exactly the record with the given
\* id from the stored list and from the displayed list and keeps the order of
\* the others; the stored list stays in save order and the displayed list
\* stays its reverse.
C30_DeleteKeepsOrder ==
  /\ [][\A id \in RecordIds :
         (recordings' # recordings /\ deleteRecording(id, TRUE)) =>
           /\ recordings' = WithoutId(recordings, id)
           /\ historyRecordings' = WithoutId(historyRecordings, id)]_vars
  /\ [](Increasing(recordings) /\ historyRecordings = Reverse(recordings))

====
